---- MODULE Spec2Model ----
(***************************************************************************)
(* Model of zedis' per-connection server state (ZedisServerState):        *)
(* key scanning, type resolution, key selection and mutations.             *)
(*                                                                         *)
(* Strings are sequences of one-character strings, so that `contains`,    *)
(* `strip_prefix` and the glob patterns "*kw*" / "prefix*" are computed.   *)
(* Option<T> is a sequence of length 0 (None) or 1 (Some).                 *)
(* Background tasks handed to `spawn` are records in the bag `tasks`; a    *)
(* task's completion picks the store's answer and runs the callback.       *)
(***************************************************************************)
EXTENDS Bags, FiniteSets, Integers, Sequences, TLC

\* ------------------------------------------------------------------ bounds
Shards == 1
MaxCursor == 2
MaxPageKeys == 1
MaxTasks == 2
MaxScanTimes == 1
MaxTreeId == 2
MaxBulkTreeId == 6
MaxListLen == 2
MaxEdits == 2
MaxListEdits == 5
MaxBusyEdits == 3
MaxRaceEdits == 4
MaxEditorEdits == 3
LongList == 250
BulkPage == 400

\* ------------------------------------------------------- program constants
DEFAULT_SCAN_RESULT_MAX == 1000

\* ------------------------------------------------------------------ options
None == <<>>
Some(x) == <<x>>
IsSome(o) == Len(o) = 1
Unwrap(o) == o[1]

\* ------------------------------------------------------------------ strings
EmptyStr == <<>>
Separator == <<":">>

Contains(s, sub) ==
    \E i \in 0..(Len(s) - Len(sub)) : SubSeq(s, i + 1, i + Len(sub)) = sub

StartsWith(s, p) ==
    Len(p) <= Len(s) /\ SubSeq(s, 1, Len(p)) = p

StripPrefix(s, p) ==
    IF StartsWith(s, p) THEN Some(SubSeq(s, Len(p) + 1, Len(s))) ELSE None

\* the glob "*keyword*" of scan_keys, for keywords without glob characters
MatchesKeyword(k, kw) == Contains(k, kw)

\* the glob "prefix*" of scan_prefix
MatchesPrefix(k, p) == StartsWith(k, p)

\* ------------------------------------------------------------------ universe
Servers == {"s1", "s2"}
Keywords == {EmptyStr, <<"a">>, <<"b">>}
SmallKeys == {<<"a">>, <<"b">>, <<"a", ":", "b">>}
Prefixes == {<<"a", ":">>}

\* Bulk keys.  A page source with thousands of keys is modelled in blocks: the
\* key <<"k", d1, d2>> stands for the BulkPage keys "k<d1><d2>000" ..., which the
\* store returns together and classifies alike.  KeyLen counts a block as
\* BulkPage keys, so keys.len() and the cap keep their real magnitudes.
Digit == <<"0", "1", "2", "3", "4", "5", "6", "7", "8", "9">>
BlockKey(i) == <<"k", Digit[((i \div 10) % 10) + 1], Digit[(i % 10) + 1]>>
IsBlock(k) == Len(k) = 3 /\ k[1] = "k"
Blocks(ks) == {k \in DOMAIN ks : IsBlock(k)}

\* keys.len()
KeyLen(ks) ==
    Cardinality((DOMAIN ks) \ Blocks(ks)) + BulkPage * Cardinality(Blocks(ks))

CursorSets == [1..Shards -> 0..MaxCursor]

RECURSIVE SumCursors(_, _)
SumCursors(c, n) == IF n = 0 THEN 0 ELSE c[n] + SumCursors(c, n - 1)
CursorSum(c) == SumCursors(c, Len(c))

\* ------------------------------------------------------------------ KeyType
KeyTypes == {"Unknown", "String", "List", "Set", "Zset", "Hash", "Stream", "Vectorset"}

KeyTypeFrom(value) ==
    CASE value = "list" -> "List"
      [] value = "set" -> "Set"
      [] value = "zset" -> "Zset"
      [] value = "hash" -> "Hash"
      [] value = "stream" -> "Stream"
      [] value = "vectorset" -> "Vectorset"
      [] value = "string" -> "String"
      [] OTHER -> "Unknown"

\* replies of TYPE seen by fill_key_types; "" is unwrap_or_default of a failed lookup
TypeReplies == {"string", "list", ""}

\* ------------------------------------------------------------------ state
VARIABLES
    server,          \* connection identity
    keyword,         \* current filter
    keys,            \* key -> KeyType
    cursors,         \* Option<cursor set>
    scan_completed,
    scaning,
    scan_times,      \* round
    loaded_prefixes,
    key_tree_id,     \* Uuid::now_v7 as a counter: every regeneration is a new value
    tasks,           \* bag of background tasks in flight
    key,             \* Option<selected key>
    value,           \* Option<RedisValue> of the selected key
    deleting,
    updating,
    edits,           \* how many commands on the value were issued so far
    list_value,      \* the list editor's copy of the list value (RedisListValues)
    done,            \* the list editor's flag: everything is loaded
    key_tree,        \* the key tree view (ZedisKeyTree) observing the state
    string_editor,   \* the string editor view (ZedisStringEditor): text, value_modified
    source,          \* which store the model runs against: "small", "bulk", "finite", ...
    last             \* the last operation, its input and what it spawned

scanVars == <<server, keyword, keys, cursors, scan_completed, scaning, scan_times,
              loaded_prefixes, key_tree_id>>

vars == <<scanVars, key, value, deleting, updating, edits, list_value, done, key_tree,
          string_editor, tasks, source, last>>

EmptyKeys == [k \in {} |-> "Unknown"]
KeyCount == KeyLen(keys)

\* what the last operation was: its name, whether its answer was a success,
\* whether it belonged to another (server, keyword) than the current one,
\* whether it called scan_keys again, and how many tasks it spawned
Event(op, ok, stale, cont, new) ==
    [op |-> op, ok |-> ok, stale |-> stale, cont |-> cont, spawned |-> Cardinality(new)]

NoOp == Event("init", TRUE, FALSE, FALSE, {})

\* ------------------------------------------------------------------ helpers
\* the key_tree_id of a state before its first regeneration, and of a new view
NoTreeId == 0
NewTreeId(id) == id + 1

\* ZedisKeyTree::update_key_tree, run by the view on every notification of the
\* state: it returns when the view's key_tree_id equals the state's id, else it
\* sets the tree items anew; the view's key_tree_id is assigned nowhere
UpdateKeyTree(id) ==
    [key_tree_id |-> key_tree.key_tree_id, rebuilt |-> key_tree.key_tree_id # id]

\* RedisValue::string_value and RedisValue::bytes_value
StringValue(v) == IF IsSome(v.data) /\ Unwrap(v.data).tag = "String" THEN Some(Unwrap(v.data).str) ELSE None
BytesValue(v) == IF IsSome(v.data) /\ Unwrap(v.data).tag = "Bytes" THEN Some(Unwrap(v.data).raw) ELSE None

\* the byte a character of the model stands for; "#" is a byte that is not UTF-8
ByteOf(c) ==
    CASE c = "#" -> 255 [] c = "x" -> 120 [] c = "y" -> 121 [] c = "z" -> 122
      [] c = "[" -> 91 [] c = "]" -> 93 [] c = "1" -> 49 [] c = "a" -> 97 [] c = "b" -> 98
      [] OTHER -> 63
HexDigit == <<"0", "1", "2", "3", "4", "5", "6", "7", "8", "9", "a", "b", "c", "d", "e", "f">>

\* pretty_hex::config_hex without title and grouping, for fewer bytes than one
\* line holds: the offset, the bytes in hex, then the bytes as text with "."
\* for the ones that are not printable
RECURSIVE HexColumn(_)
HexColumn(raw) ==
    IF Len(raw) = 0 THEN <<>>
    ELSE <<HexDigit[(ByteOf(Head(raw)) \div 16) + 1], HexDigit[(ByteOf(Head(raw)) % 16) + 1], " ">>
         \o HexColumn(Tail(raw))
ConfigHex(raw) ==
    <<"0", "0", "0", "0", ":", " ", " ", " ">> \o HexColumn(raw) \o <<" ", " ">>
    \o [i \in 1..Len(raw) |-> IF ByteOf(raw[i]) < 127 THEN raw[i] ELSE "."]

\* get_string_value: the text the string editor shows for the value v
GetStringValue(v) ==
    IF ~IsSome(v) THEN EmptyStr
    ELSE LET string_value == IF IsSome(StringValue(Unwrap(v)))
                             THEN Unwrap(StringValue(Unwrap(v))) ELSE EmptyStr
         IN  IF string_value = EmptyStr /\ IsSome(BytesValue(Unwrap(v)))
             THEN ConfigHex(Unwrap(BytesValue(Unwrap(v))))
             ELSE string_value

\* the handler of InputEvent::Change: value_modified once the editor holds text
\* while the state holds v
ValueModified(text, v) ==
    LET original == IF IsSome(v) /\ IsSome(StringValue(Unwrap(v)))
                    THEN Unwrap(StringValue(Unwrap(v))) ELSE EmptyStr
    IN  original # text

\* ZedisStringEditor::update_editor_value, run by the view on every
\* notification of the state that holds v: value_modified is cleared and the
\* editor is given the text of v.  InputState::set_value belongs to the
\* component library: it may emit InputEvent::Change or not, so the flag is
\* either still cleared or recomputed by the handler
UpdateEditorValue(v) ==
    {[text |-> GetStringValue(v), value_modified |-> m] :
        m \in {FALSE, ValueModified(GetStringValue(v), v)}}

\* reset_scan: every scan-related field back to its initial value
ResetScan ==
    [keys |-> EmptyKeys, cursors |-> None, scan_completed |-> FALSE,
     scaning |-> FALSE, scan_times |-> 0, loaded_prefixes |-> {},
     key_tree_id |-> IF DOMAIN keys = {} THEN key_tree_id ELSE NewTreeId(key_tree_id)]

\* extend_keys: new keys are inserted as Unknown, known keys keep their type
ExtendKeys(ks, new) ==
    [k \in (DOMAIN ks) \cup new |-> IF k \in DOMAIN ks THEN ks[k] ELSE "Unknown"]

\* extend_keys regenerates the tree id when it inserted something
ExtendTreeId(ks, new, id) ==
    IF new \subseteq DOMAIN ks THEN id ELSE NewTreeId(id)

\* spawn: the task runs in the background, its callback runs later on the state
Spawn(bag, new) == bag (+) SetToBag(new)
Finish(bag, t) == bag (-) SetToBag({t})

\* scan_keys without its guard on (server, keyword)
ScanKeysSpawn_NoGuard(srv, kw, curServer, curKeyword, curCursors, curScanTimes) ==
    {[kind |-> "scan_keys", server |-> srv, keyword |-> kw,
      cursors |-> curCursors,
      max |-> (curScanTimes + 1) * DEFAULT_SCAN_RESULT_MAX]}

\* scan_keys(server, keyword) called on a state with the given current fields:
\* the page request it spawns, if any
ScanKeysSpawn(srv, kw, curServer, curKeyword, curCursors, curScanTimes) ==
    IF curServer # srv \/ curKeyword # kw
    THEN {}
    ELSE {[kind |-> "scan_keys", server |-> srv, keyword |-> kw,
           cursors |-> curCursors,
           max |-> (curScanTimes + 1) * DEFAULT_SCAN_RESULT_MAX]}

\* the filter forgets the test on the rest of the key: every Unknown key below prefix
FillTargets_AnyDepth(ks, prefix) ==
    {k \in DOMAIN ks :
        /\ ks[k] = "Unknown"
        /\ IsSome(StripPrefix(k, prefix))}

\* the keys fill_key_types(prefix) selects: Unknown direct children of prefix
FillTargets(ks, prefix) ==
    {k \in DOMAIN ks :
        /\ ks[k] = "Unknown"
        /\ IsSome(StripPrefix(k, prefix))
        /\ ~Contains(Unwrap(StripPrefix(k, prefix)), Separator)}

\* fill_key_types(prefix): the classification batch it spawns, if any
FillKeyTypesSpawn(ks, srv, prefix) ==
    IF FillTargets(ks, prefix) = {}
    THEN {}
    ELSE {[kind |-> "fill_key_types", server |-> srv, keys |-> FillTargets(ks, prefix)]}

\* one failed lookup makes the callback drop the whole batch
MergeTypes_AllOrNothing(ks, types) ==
    IF \E k \in DOMAIN types : types[k] = ""
    THEN ks
    ELSE [k \in DOMAIN ks |->
            IF k \in DOMAIN types THEN KeyTypeFrom(types[k]) ELSE ks[k]]

\* the callback inserts every key of the batch, present or not
MergeTypes_Insert(ks, types) ==
    [k \in (DOMAIN ks) \cup (DOMAIN types) |->
        IF k \in DOMAIN types THEN KeyTypeFrom(types[k]) ELSE ks[k]]

\* the callback of fill_key_types: only keys still present are written
MergeTypes(ks, types) ==
    [k \in DOMAIN ks |->
        IF k \in DOMAIN types THEN KeyTypeFrom(types[k]) ELSE ks[k]]

\* ------------------------------------------------------------------ the store
Failure == [ok |-> FALSE]

\* the store holds the few keys of SmallKeys
SmallStore == source \in {"small", "keys", "busy", "editor"}
StoreKeys == IF source \in {"keys", "busy", "editor"} THEN {<<"a">>, <<"a", ":", "b">>} ELSE SmallKeys

SmallPages(kw) ==
    {S \in SUBSET {k \in StoreKeys : MatchesKeyword(k, kw)} : Cardinality(S) <= MaxPageKeys}

\* a page of n blocks of keys none of which is known yet
BulkPageOf(n) ==
    {BlockKey(i) : i \in Cardinality(Blocks(keys))..(Cardinality(Blocks(keys)) + n - 1)}

\* the cursor sets the store may return for the page request t:
\*   "small"   any cursor set
\*   "keys"    a first or a last page
\*   "bulk"    a page source that never finishes: never an all-zero cursor set
\*   "finite"  a cursor sequence that reaches all-zero: the sum decreases
\*   "busy"    as "finite", over the few keys of the small store
PageCursorSets(t) ==
    CASE source = "bulk" -> {cs \in CursorSets : CursorSum(cs) # 0}
      [] source \in {"finite", "busy"} ->
            {cs \in CursorSets :
                t.cursors = None \/ CursorSum(cs) < CursorSum(Unwrap(t.cursors))}
      [] source \in {"keys", "editor"} -> {cs \in CursorSets : CursorSum(cs) <= 1}
      [] OTHER -> CursorSets

\* what client.scan / client.first_scan may answer to the page request t
ScanResults(t) ==
    IF SmallStore
    THEN {Failure} \cup
         {[ok |-> TRUE, cursors |-> c, keys |-> S] :
            c \in PageCursorSets(t), S \in SmallPages(t.keyword)}
    ELSE {[ok |-> TRUE, cursors |-> c,
           keys |-> {k \in BulkPageOf(n) : MatchesKeyword(k, t.keyword)}] :
            c \in PageCursorSets(t), n \in {1, 2}}

TypeAnswers ==
    CASE source = "keys" -> {"string", ""}
      [] source \in {"busy", "editor"} -> {"string"}
      [] OTHER -> TypeReplies

\* what the TYPE batch of fill_key_types may answer
TypeResults(t) ==
    IF SmallStore
    THEN {Failure} \cup {[ok |-> TRUE, types |-> f] : f \in [t.keys -> TypeAnswers]}
    ELSE {Failure} \cup {[ok |-> TRUE, types |-> [k \in t.keys |-> rep]] : rep \in TypeReplies}

ScanKeywords ==
    CASE source = "small" -> Keywords
      [] source \in {"keys", "editor"} -> {EmptyStr}
      [] source = "busy" -> {EmptyStr, <<"a">>}
      [] OTHER -> {EmptyStr, <<"k">>}

\* ------------------------------------------------------------------ initial state
InitState ==
    /\ server = "s1"
    /\ keyword = EmptyStr
    /\ keys = EmptyKeys
    /\ cursors = None
    /\ scan_completed = FALSE
    /\ scaning = FALSE
    /\ scan_times = 0
    /\ loaded_prefixes = {}
    /\ key_tree_id = NoTreeId
    /\ key = None
    /\ value = None
    /\ deleting = FALSE
    /\ updating = FALSE
    /\ edits = 0
    /\ list_value = [tag |-> "List", size |-> 0, values |-> <<>>]
    /\ done = FALSE
    /\ key_tree = [key_tree_id |-> NoTreeId, rebuilt |-> FALSE]
    /\ string_editor = [text |-> EmptyStr, value_modified |-> FALSE]
    /\ tasks = EmptyBag
    /\ last = NoOp

Init == InitState /\ source = "small"

\* a user command may be issued
CanSpawn == BagCardinality(tasks) < MaxTasks
EditCap ==
    CASE source = "list" -> MaxListEdits
      [] source = "busy" -> MaxBusyEdits
      [] source = "race" -> MaxRaceEdits
      [] source = "editor" -> MaxEditorEdits
      [] OTHER -> MaxEdits
CanCommand ==
    CanSpawn /\ key_tree_id < (IF SmallStore THEN MaxTreeId ELSE MaxBulkTreeId)

\* a scan may be started; against the "busy" and "editor" stores the scans are counted with
\* the other commands, so that every behaviour issues finitely many of them
CanScan == CanCommand /\ (source \in {"busy", "editor"} => edits < EditCap)
ScanEdits == IF source \in {"busy", "editor"} THEN edits + 1 ELSE edits

\* the page request t was issued under another (server, keyword) than the current one
Stale(t) == t.server # server \/ t.keyword # keyword

\* ------------------------------------------------------------------ scan
\* scan that marks scaning before reset_scan, which clears it again
Scan_ResetLast(kw) ==
    /\ CanScan
    /\ edits' = ScanEdits
    /\ keys' = ResetScan.keys
    /\ cursors' = ResetScan.cursors
    /\ scan_completed' = ResetScan.scan_completed
    /\ scan_times' = ResetScan.scan_times
    /\ loaded_prefixes' = ResetScan.loaded_prefixes
    /\ key_tree_id' = ResetScan.key_tree_id
    /\ scaning' = ResetScan.scaning
    /\ keyword' = kw
    /\ LET new == ScanKeysSpawn(server, kw, server, kw, ResetScan.cursors, ResetScan.scan_times)
       IN  /\ tasks' = Spawn(tasks, new)
           /\ last' = Event("scan", TRUE, FALSE, FALSE, new)
    /\ UNCHANGED <<server, source, key, value, deleting, updating, list_value, done>>
    /\ key_tree' = UpdateKeyTree(key_tree_id')
    /\ string_editor' \in UpdateEditorValue(value')

\* scan(keyword): startScan
Scan(kw) ==
    /\ CanScan
    /\ edits' = ScanEdits
    /\ keys' = ResetScan.keys
    /\ cursors' = ResetScan.cursors
    /\ scan_completed' = ResetScan.scan_completed
    /\ scan_times' = ResetScan.scan_times
    /\ loaded_prefixes' = ResetScan.loaded_prefixes
    /\ key_tree_id' = ResetScan.key_tree_id
    /\ scaning' = TRUE
    /\ keyword' = kw
    /\ LET new == ScanKeysSpawn(server, kw, server, kw, ResetScan.cursors, ResetScan.scan_times)
       IN  /\ tasks' = Spawn(tasks, new)
           /\ last' = Event("scan", TRUE, FALSE, FALSE, new)
    /\ UNCHANGED <<server, source, key, value, deleting, updating, list_value, done>>
    /\ key_tree' = UpdateKeyTree(key_tree_id')
    /\ string_editor' \in UpdateEditorValue(value')

\* scan_next: scanMore
ScanNext ==
    /\ CanCommand
    /\ scan_times < MaxScanTimes
    /\ ~scan_completed
    /\ scan_times' = scan_times + 1
    /\ LET new == ScanKeysSpawn(server, keyword, server, keyword, cursors, scan_times + 1)
       IN  /\ tasks' = Spawn(tasks, new)
           /\ last' = Event("scan_next", TRUE, FALSE, FALSE, new)
    /\ UNCHANGED <<server, keyword, keys, cursors, scan_completed, scaning,
                   loaded_prefixes, key_tree_id, source, key, value, deleting, updating, edits, list_value, done>>
    /\ key_tree' = UpdateKeyTree(key_tree_id')
    /\ string_editor' \in UpdateEditorValue(value')

\* the Err arm forgets to clear the cursor
PageCursors_KeepOnError(r) ==
    IF r.ok
    THEN IF CursorSum(r.cursors) = 0 THEN None ELSE Some(r.cursors)
    ELSE cursors

\* the callback of scan_keys, Ok / Err arms: the cursor it leaves in the state
PageCursors(r) ==
    IF r.ok
    THEN IF CursorSum(r.cursors) = 0 THEN None ELSE Some(r.cursors)
    ELSE None

\* the Ok arm clears the cursor on an all-zero sum but does not mark the scan completed
PageCompleted_Never(r) == scan_completed

\* the callback of scan_keys, Ok arm: scan_completed is set on an all-zero sum
PageCompleted(r) ==
    IF r.ok /\ CursorSum(r.cursors) = 0 THEN TRUE ELSE scan_completed

\* the callback of scan_keys, Ok arm: this.extend_keys(keys)
PageKeys(r) == IF r.ok THEN ExtendKeys(keys, r.keys) ELSE keys

PageTreeId(r) == IF r.ok THEN ExtendTreeId(keys, r.keys, key_tree_id) ELSE key_tree_id

\* the callback continues whatever the key count
RunAgain_NoCap(t, cursors1, keys1) == IsSome(cursors1)

\* the callback of scan_keys: `this.cursors.is_some() && this.keys.len() < max`,
\* on the cursor and keys the arms above left
RunAgain(t, cursors1, keys1) ==
    IsSome(cursors1) /\ KeyLen(keys1) < t.max

\* the next page is asked with the cursor the finished request was sent with
PageSpawn_OldCursor(t, cursors1, keys1) ==
    IF RunAgain(t, cursors1, keys1)
    THEN ScanKeysSpawn(t.server, t.keyword, server, keyword, t.cursors, scan_times)
    ELSE FillKeyTypesSpawn(keys1, server, EmptyStr)

\* what the callback of scan_keys spawns: the next page, or the type resolution
PageSpawn(t, cursors1, keys1) ==
    IF RunAgain(t, cursors1, keys1)
    THEN ScanKeysSpawn(t.server, t.keyword, server, keyword, cursors1, scan_times)
    ELSE FillKeyTypesSpawn(keys1, server, EmptyStr)

\* the callback of scan_keys applied to the answer r of the page request t
ScanKeysDone(t, r) ==
    LET cursors1 == PageCursors(r)
        keys1 == PageKeys(r)
        again == RunAgain(t, cursors1, keys1)
        new == PageSpawn(t, cursors1, keys1)
    IN  /\ cursors' = cursors1
        /\ scan_completed' = PageCompleted(r)
        /\ keys' = keys1
        /\ key_tree_id' = PageTreeId(r)
        /\ scaning' = IF again THEN scaning ELSE FALSE
        /\ tasks' = Spawn(Finish(tasks, t), new)
        /\ last' = Event("scan_keys_done", r.ok, Stale(t), again, new)
        /\ UNCHANGED <<server, keyword, scan_times, loaded_prefixes, source, key, value, deleting, updating, edits, list_value, done>>
        /\ key_tree' = UpdateKeyTree(key_tree_id')
    /\ string_editor' \in UpdateEditorValue(value')

PageArrives ==
    \E t \in BagToSet(tasks) :
        /\ t.kind = "scan_keys"
        /\ \E r \in ScanResults(t) : ScanKeysDone(t, r)

\* the callback of fill_key_types applied to the answer r of the batch t
FillKeyTypesDone(t, r) ==
    /\ keys' = IF r.ok THEN MergeTypes(keys, r.types) ELSE keys
    /\ key_tree_id' = IF r.ok THEN NewTreeId(key_tree_id) ELSE key_tree_id
    /\ tasks' = Finish(tasks, t)
    /\ last' = Event("fill_key_types_done", r.ok, FALSE, FALSE, {})
    /\ UNCHANGED <<server, keyword, cursors, scan_completed, scaning, scan_times,
                   loaded_prefixes, source, key, value, deleting, updating, edits, list_value, done>>
    /\ key_tree' = UpdateKeyTree(key_tree_id')
    /\ string_editor' \in UpdateEditorValue(value')

TypesArrive ==
    \E t \in BagToSet(tasks) :
        /\ t.kind = "fill_key_types"
        /\ \E r \in TypeResults(t) : FillKeyTypesDone(t, r)

\* ------------------------------------------------------------------ scan_prefix
PREFIX_SCAN_ROUNDS == 20

\* one page of the loop of scan_prefix, from every configuration in S:
\* a configuration is the loop's local state (cursors, result_keys, pages asked)
PrefixPagesOf(p) ==
    {S \in SUBSET {k \in StoreKeys : MatchesPrefix(k, p)} : Cardinality(S) <= MaxPageKeys}

PrefixStep(S, p) ==
    {[cursors |-> c, keys |-> cfg.keys \cup ks, pages |-> cfg.pages + 1] :
        cfg \in S, c \in CursorSets, ks \in PrefixPagesOf(p)}

\* the loop `for _ in 0..20`: the configurations that left it by `break`
\* (all-zero cursor sum) or by exhausting the rounds, after n more rounds
RECURSIVE PrefixLoop(_, _, _)
PrefixLoop(S, p, n) ==
    IF n = 0 \/ S = {}
    THEN {[ok |-> TRUE, keys |-> cfg.keys, pages |-> cfg.pages, zero |-> FALSE] : cfg \in S}
    ELSE LET next == PrefixStep(S, p)
             broke == {cfg \in next : CursorSum(cfg.cursors) = 0}
         IN  {[ok |-> TRUE, keys |-> cfg.keys, pages |-> cfg.pages, zero |-> TRUE] : cfg \in broke}
             \cup PrefixLoop(next \ broke, p, n - 1)

\* what the background task of scan_prefix may deliver: Err when get_client or
\* any page failed (`?`), else the accumulated keys
PrefixResults(t) ==
    {Failure} \cup
    PrefixLoop({[cursors |-> [i \in 1..Shards |-> 0], keys |-> {}, pages |-> 0]},
               t.prefix, PREFIX_SCAN_ROUNDS)

\* the prefix is scanned whether the scan is completed or not
ScanPrefixSpawn_IgnoreCompleted(p) ==
    {[kind |-> "scan_prefix", server |-> server, prefix |-> p]}

\* what scan_prefix(prefix) spawns for a prefix that is not loaded: the type
\* resolution of the prefix on a completed scan, else the prefix scan
ScanPrefixSpawn(p) ==
    IF scan_completed
    THEN FillKeyTypesSpawn(keys, server, p)
    ELSE {[kind |-> "scan_prefix", server |-> server, prefix |-> p]}

\* scan_prefix(prefix)
ScanPrefix(p) ==
    /\ CanCommand
    /\ p \notin loaded_prefixes
    /\ LET new == ScanPrefixSpawn(p)
       IN  /\ tasks' = Spawn(tasks, new)
           /\ last' = Event("scan_prefix", TRUE, FALSE, FALSE, new)
    /\ UNCHANGED <<server, keyword, keys, cursors, scan_completed, scaning,
                   scan_times, loaded_prefixes, key_tree_id, source, key, value, deleting, updating, edits, list_value, done>>
    /\ UNCHANGED <<key_tree, string_editor>>

\* the prefix is marked loaded whatever the outcome
PrefixLoaded_Always(t, r) == loaded_prefixes \cup {t.prefix}

\* the callback of scan_prefix: this.loaded_prefixes.insert(prefix) on Ok
PrefixLoaded(t, r) ==
    IF r.ok THEN loaded_prefixes \cup {t.prefix} ELSE loaded_prefixes

\* the callback of scan_prefix applied to the outcome r of the task t
ScanPrefixDone(t, r) ==
    LET keys1 == IF r.ok THEN ExtendKeys(keys, r.keys) ELSE keys
        new == FillKeyTypesSpawn(keys1, server, t.prefix)
    IN  /\ loaded_prefixes' = PrefixLoaded(t, r)
        /\ keys' = keys1
        /\ key_tree_id' = IF r.ok THEN ExtendTreeId(keys, r.keys, key_tree_id) ELSE key_tree_id
        /\ tasks' = Spawn(Finish(tasks, t), new)
        /\ last' = Event("scan_prefix_done", r.ok, t.server # server, FALSE, new)
        /\ UNCHANGED <<server, keyword, cursors, scan_completed, scaning, scan_times, source, key, value, deleting, updating, edits, list_value, done>>
        /\ key_tree' = UpdateKeyTree(key_tree_id')
    /\ string_editor' \in UpdateEditorValue(value')

PrefixArrives ==
    \E t \in BagToSet(tasks) :
        /\ t.kind = "scan_prefix"
        /\ \E r \in PrefixResults(t) : ScanPrefixDone(t, r)

\* ------------------------------------------------------------------ values
LIST_PAGE == 100

\* RedisValue { key_type, data, expire_at, size }
RedisValue(kt, data, exp, size) ==
    [key_type |-> kt, data |-> data, expire_at |-> exp, size |-> size]

DefaultValue == RedisValue("Unknown", None, None, 0)

StringData(str) == [tag |-> "String", str |-> str]
BytesData(raw) == [tag |-> "Bytes", raw |-> raw]
ListData(size, values) == [tag |-> "List", size |-> size, values |-> values]

\* RedisValue::list_value
ListValue(v) == IF IsSome(v.data) /\ Unwrap(v.data).tag = "List" THEN v.data ELSE None

\* ZedisListEditor::update_list_values, run on every notification of the
\* state: the editor takes the list of the value v1 when v1 is a list
ObserveList(v1) ==
    IF IsSome(v1) /\ IsSome(ListValue(Unwrap(v1)))
    THEN Unwrap(ListValue(Unwrap(v1)))
    ELSE list_value

\* what GET may return: the bytes of a value, as a sequence of characters.
\* "#" stands for a byte that is not valid UTF-8; a value starting with "["
\* is a JSON array, any other text is not JSON.
StoreStrings == {<<>>, <<"x">>, <<"[", "1", "]">>, <<"#">>}
IsUtf8(raw) == \A i \in 1..Len(raw) : raw[i] # "#"
IsJson(raw) == Len(raw) > 0 /\ raw[1] = "[" /\ raw[Len(raw)] = "]"

\* serde_json::to_string_pretty of an array: one element per line, indented
RECURSIVE PrettyItems(_)
PrettyItems(items) ==
    IF Len(items) = 0 THEN <<>>
    ELSE <<"\n", " ", " ", Head(items)>> \o PrettyItems(Tail(items))

ToStringPretty(raw) ==
    IF Len(raw) = 2 THEN raw
    ELSE <<"[">> \o PrettyItems(SubSeq(raw, 2, Len(raw) - 1)) \o <<"\n", "]">>

\* get_redis_value on the bytes GET returned
GetRedisValue(raw) ==
    IF Len(raw) = 0
    THEN RedisValue("String", Some(StringData(<<>>)), None, 0)
    ELSE IF IsUtf8(raw)
         THEN IF IsJson(raw)
              THEN RedisValue("String", Some(StringData(ToStringPretty(raw))), None, Len(raw))
              ELSE RedisValue("String", Some(StringData(raw)), None, Len(raw))
         ELSE RedisValue("String", Some(BytesData(raw)), None, Len(raw))

\* the elements LRANGE key start stop returns from a list of len elements;
\* the element at index i is the number i + 1
Min(a, b) == IF a < b THEN a ELSE b
Lrange(len, start, stop) ==
    IF start >= len THEN <<>>
    ELSE [i \in 1..(Min(stop + 1, len) - start) |-> start + i]

\* first_load_list_value on a list of len elements
FirstLoadListValue(len) ==
    RedisValue("List", Some(ListData(len, Lrange(len, 0, LIST_PAGE - 1))), None, 0)

\* what the store may answer
ListLens ==
    CASE source = "keys" -> {MaxListLen}
      [] source = "list" -> {0, MaxListLen, LIST_PAGE, LongList}
      [] source = "race" -> {LongList}
      [] OTHER -> {0, MaxListLen}
Ttls == IF source \in {"keys", "list", "race", "editor"} THEN {-1} ELSE {-2, -1, 5}
Times == {1000}
TypeNames ==
    IF source \in {"keys", "list"} THEN {"string", "list"}
    ELSE {"string", "list", "hash", "none"}
GetReplies ==
    CASE source \in {"keys", "list", "editor"} -> {<<"x">>}
      [] source = "race" -> {<<"b">>}
      [] OTHER -> StoreStrings

\* what TYPE may answer for key k: the "race" store holds the list a and the
\* string b, the "editor" store holds strings, the other stores may hold
\* anything under any key
KeyTypeNames(k) ==
    CASE source = "race" -> IF k = <<"a">> THEN {"list"} ELSE {"string"}
      [] source = "editor" -> {"string"}
      [] OTHER -> TypeNames

Ok(v) == [ok |-> TRUE, value |-> v]

\* the expiry is taken as the remaining seconds, the clock is not added
ExpireAt_Relative(ttl, now) ==
    IF ttl = -1 THEN Some(-1)
    ELSE IF ttl >= 0 THEN Some(ttl) ELSE None

\* select_key (task): expire_at from the TTL reply at time now
ExpireAt(ttl, now) ==
    IF ttl = -1 THEN Some(-1)
    ELSE IF ttl >= 0 THEN Some(now + ttl) ELSE None

\* what the store answered to the task: the pipeline (TYPE, TTL) answered
\* (tname, ttl) at time now, and a value fetch (GET, or LLEN and LRANGE) was
\* sent or not
Asked(r, tname, ttl, now, fetched) ==
    r @@ [piped |-> TRUE, tname |-> tname, ttl |-> ttl, now |-> now, fetched |-> fetched]

\* the task of select_key after TYPE and TTL answered (tname, ttl) at time now
SelectValue(tname, ttl, now) ==
    IF ttl = -2
    THEN {Asked(Ok([DefaultValue EXCEPT !.expire_at = Some(-2)]), tname, ttl, now, FALSE)}
    ELSE CASE KeyTypeFrom(tname) = "String" ->
                {Asked(r, tname, ttl, now, TRUE) :
                    r \in {Failure} \cup
                          {Ok([GetRedisValue(raw) EXCEPT !.expire_at = ExpireAt(ttl, now)]) :
                              raw \in GetReplies}}
           [] KeyTypeFrom(tname) = "List" ->
                {Asked(r, tname, ttl, now, TRUE) :
                    r \in {Failure} \cup
                          {Ok([FirstLoadListValue(len) EXCEPT !.expire_at = ExpireAt(ttl, now)])
                              @@ [len |-> len] : len \in ListLens}}
           [] OTHER -> {Asked(Failure, tname, ttl, now, FALSE)}

\* the connection or the pipeline failed, or the pipeline answered
SelectResults(t) ==
    {Failure @@ [piped |-> FALSE]} \cup
    UNION {SelectValue(tname, ttl, now) :
              tname \in KeyTypeNames(t.key), ttl \in Ttls, now \in Times}

\* ------------------------------------------------------------------ select_key
SelectKeys ==
    CASE source \in {"keys", "list"} -> {EmptyStr, <<"a">>}
      [] source = "race" -> {<<"a">>, <<"b">>}
      [] source = "editor" -> {<<"a">>}
      [] OTHER -> {EmptyStr, <<"a">>, <<"b">>}
\* the keys a delete, a save or an expiry update is issued for; against the
\* "race" and "editor" stores it is the selected key, as the editor of the
\* shown value does
EditKeys ==
    CASE source = "keys" -> {<<"a">>, <<"a", ":", "b">>}
      [] source = "busy" -> {<<"a">>}
      [] source \in {"race", "editor"} -> {k \in {<<"a">>, <<"b">>} : key = Some(k)}
      [] OTHER -> {<<"a">>, <<"b">>}

\* self.key.clone().unwrap_or_default()
KeyOrDefault == IF IsSome(key) THEN Unwrap(key) ELSE EmptyStr

SelectKey(k) ==
    /\ CanSpawn
    /\ edits < EditCap
    /\ edits' = edits + 1
    /\ KeyOrDefault # k
    /\ key' = Some(k)
    /\ LET new == IF k = EmptyStr THEN {}
                  ELSE {[kind |-> "select_key", server |-> server, key |-> k]}
       IN  /\ tasks' = Spawn(tasks, new)
           /\ last' = Event("select_key", TRUE, FALSE, FALSE, new)
    /\ UNCHANGED <<scanVars, value, deleting, updating, source, list_value, done>>
    /\ key_tree' = UpdateKeyTree(key_tree_id')
    /\ string_editor' \in UpdateEditorValue(value')

\* the Err arm leaves the value that was there
SelectedValue_KeepOnError(r) == IF r.ok THEN Some(r.value) ELSE value

\* the callback of select_key: the value it stores
SelectedValue(r) == IF r.ok THEN Some(r.value) ELSE None

SelectKeyDone(t, r) ==
    /\ value' = SelectedValue(r)
    /\ tasks' = Finish(tasks, t)
    /\ last' = Event("select_key_done", r.ok, Some(t.key) # key, FALSE, {}) @@ [reply |-> r]
    /\ UNCHANGED <<scanVars, key, deleting, updating, source, edits, done>>
    /\ key_tree' = UpdateKeyTree(key_tree_id')
    /\ string_editor' \in UpdateEditorValue(value')
    /\ list_value' = ObserveList(value')

ValueArrives ==
    \E t \in BagToSet(tasks) :
        /\ t.kind = "select_key"
        /\ \E r \in SelectResults(t) : SelectKeyDone(t, r)

\* ------------------------------------------------------------------ delete_key
DeleteKey(k) ==
    /\ CanCommand
    /\ edits < EditCap
    /\ edits' = edits + 1
    /\ deleting' = TRUE
    /\ LET new == {[kind |-> "delete_key", server |-> server, key |-> k]}
       IN  /\ tasks' = Spawn(tasks, new)
           /\ last' = Event("delete_key", TRUE, FALSE, FALSE, new)
    /\ UNCHANGED <<scanVars, key, value, updating, source, list_value, done>>
    /\ key_tree' = UpdateKeyTree(key_tree_id')
    /\ string_editor' \in UpdateEditorValue(value')

\* the delete removes the key whatever the answer
DeletedKeys_Always(t, r) == [k \in (DOMAIN keys) \ {t.key} |-> keys[k]]

\* the callback of delete_key: this.keys.remove(&remove_key) on Ok
DeletedKeys(t, r) ==
    IF r.ok THEN [k \in (DOMAIN keys) \ {t.key} |-> keys[k]] ELSE keys

\* the selection is cleared whatever the answer
DeletedSelection_Always(t, r) == None

\* the callback of delete_key: this.key = None on Ok
DeletedSelection(t, r) == IF r.ok THEN None ELSE key

\* the flag is cleared inside the Ok arm only
DeletingAfter_OnlyOnSuccess(r) == IF r.ok THEN FALSE ELSE deleting

\* the callback of delete_key: this.deleting = false, after the Ok arm
DeletingAfter(r) == FALSE

DeleteKeyDone(t, r) ==
    /\ keys' = DeletedKeys(t, r)
    /\ key_tree_id' = IF r.ok THEN NewTreeId(key_tree_id) ELSE key_tree_id
    /\ key' = DeletedSelection(t, r)
    /\ deleting' = DeletingAfter(r)
    /\ tasks' = Finish(tasks, t)
    /\ last' = Event("delete_key_done", r.ok, Some(t.key) # key, FALSE, {})
    /\ UNCHANGED <<server, keyword, cursors, scan_completed, scaning, scan_times,
                   loaded_prefixes, value, updating, source, edits, list_value, done>>
    /\ key_tree' = UpdateKeyTree(key_tree_id')
    /\ string_editor' \in UpdateEditorValue(value')

DeleteArrives ==
    \E t \in BagToSet(tasks) :
        /\ t.kind = "delete_key"
        /\ \E r \in {Failure, [ok |-> TRUE]} : DeleteKeyDone(t, r)

\* ------------------------------------------------------------------ save_value
SaveStrings == IF source \in {"keys", "busy", "race", "editor"} THEN {<<"y", "z">>} ELSE {<<"x">>, <<"y", "z">>}

SaveValue(k, v) ==
    /\ CanSpawn
    /\ edits < EditCap
    /\ edits' = edits + 1
    /\ updating' = TRUE
    /\ LET new == {[kind |-> "save_value", server |-> server, key |-> k, value |-> v]}
       IN  /\ tasks' = Spawn(tasks, new)
           /\ last' = Event("save_value", TRUE, FALSE, FALSE, new)
    /\ UNCHANGED <<scanVars, key, value, deleting, source, list_value, done>>
    /\ key_tree' = UpdateKeyTree(key_tree_id')
    /\ string_editor' \in UpdateEditorValue(value')

\* the callback writes the saved string whatever the answer
SavedValue_OnFailureToo(t, r) ==
    IF IsSome(value)
    THEN Some([Unwrap(value) EXCEPT !.size = Len(t.value),
                                    !.data = Some(StringData(t.value))])
    ELSE value

\* the callback of save_value: the value it leaves in the state
SavedValue(t, r) ==
    IF r.ok /\ IsSome(value)
    THEN Some([Unwrap(value) EXCEPT !.size = Len(t.value),
                                    !.data = Some(StringData(t.value))])
    ELSE value

SaveValueDone(t, r) ==
    /\ value' = SavedValue(t, r)
    /\ updating' = FALSE
    /\ tasks' = Finish(tasks, t)
    /\ last' = Event("save_value_done", r.ok, Some(t.key) # key, FALSE, {})
    /\ UNCHANGED <<scanVars, key, deleting, source, edits, done>>
    /\ key_tree' = UpdateKeyTree(key_tree_id')
    /\ string_editor' \in UpdateEditorValue(value')
    /\ list_value' = ObserveList(value')

SaveArrives ==
    \E t \in BagToSet(tasks) :
        /\ t.kind = "save_value"
        /\ \E r \in {Failure, [ok |-> TRUE]} : SaveValueDone(t, r)

\* ------------------------------------------------------------------ update_value_ttl
IsDigit(c) == \E i \in 1..10 : Digit[i] = c
DigitVal(c) == (CHOOSE i \in 1..10 : Digit[i] = c) - 1
IsUnit(c) == c \in {"s", "m", "h", "d"}
UnitSecs(c) ==
    CASE c = "s" -> 1 [] c = "m" -> 60 [] c = "h" -> 3600 [] c = "d" -> 86400

\* humantime::parse_duration on numbers followed by a unit letter: the seconds,
\* or None for an empty string, a number without unit or a unit without number
RECURSIVE ParseFrom(_, _, _, _, _)
ParseFrom(str, i, total, num, digits) ==
    IF i > Len(str)
    THEN IF digits = 0 /\ Len(str) > 0 THEN Some(total) ELSE None
    ELSE IF IsDigit(str[i])
         THEN ParseFrom(str, i + 1, total, num * 10 + DigitVal(str[i]), digits + 1)
         ELSE IF IsUnit(str[i]) /\ digits > 0
              THEN ParseFrom(str, i + 1, total + num * UnitSecs(str[i]), 0, 0)
              ELSE None

ParseDuration(str) == ParseFrom(str, 1, 0, 0, 0)

TtlInputs ==
    CASE source \in {"keys", "busy"} -> {<<"1", "0", "s">>, <<"a", "b", "c">>}
      [] source = "race" -> {<<"1", "0", "s">>}
      [] OTHER -> {<<"1", "0", "s">>, <<"1", "h", "3", "0", "m">>, <<"a", "b", "c">>}

UpdateValueTtl(k, ttl) ==
    /\ CanSpawn
    /\ edits < EditCap
    /\ edits' = edits + 1
    /\ updating' = TRUE
    /\ LET new == {[kind |-> "update_value_ttl", server |-> server, key |-> k, ttl |-> ttl]}
       IN  /\ tasks' = Spawn(tasks, new)
           /\ last' = Event("update_value_ttl", TRUE, FALSE, FALSE, new)
    /\ UNCHANGED <<scanVars, key, value, deleting, source, list_value, done>>
    /\ key_tree' = UpdateKeyTree(key_tree_id')
    /\ string_editor' \in UpdateEditorValue(value')

\* what EXPIRE may answer: 1 when the timeout was set, 0 when the key does not exist
ExpireReplies == IF source \in {"keys", "busy", "race"} THEN {1} ELSE {0, 1}

\* how far the task of update_value_ttl got: whether get_connection returned a
\* connection, whether EXPIRE was sent, and what it answered
TtlReply(ok, connected, sent) == [ok |-> ok, connected |-> connected, sent |-> sent]

\* the task of update_value_ttl: the connection, then the parse, then EXPIRE,
\* whose integer answer is read as () and so discarded
TtlResults(t) ==
    {TtlReply(FALSE, FALSE, FALSE)} \cup
    (IF IsSome(ParseDuration(t.ttl))
     THEN {TtlReply(FALSE, TRUE, TRUE)} \cup
          {TtlReply(TRUE, TRUE, TRUE) @@
              [secs |-> Unwrap(ParseDuration(t.ttl)), accepted |-> n = 1] :
              n \in ExpireReplies}
     ELSE {TtlReply(FALSE, TRUE, FALSE)})

\* the callback of update_value_ttl: the value it leaves in the state
TtlValue(r, now) ==
    IF r.ok /\ IsSome(value)
    THEN Some([Unwrap(value) EXCEPT !.expire_at = Some(now + r.secs)])
    ELSE value

UpdateValueTtlDone(t, r, now) ==
    /\ value' = TtlValue(r, now)
    /\ updating' = FALSE
    /\ tasks' = Finish(tasks, t)
    /\ last' = Event("update_value_ttl_done", r.ok, Some(t.key) # key, FALSE, {})
                  @@ [reply |-> r, now |-> now]
    /\ UNCHANGED <<scanVars, key, deleting, source, edits, done>>
    /\ key_tree' = UpdateKeyTree(key_tree_id')
    /\ string_editor' \in UpdateEditorValue(value')
    /\ list_value' = ObserveList(value')

TtlArrives ==
    \E t \in BagToSet(tasks) :
        /\ t.kind = "update_value_ttl"
        /\ \E r \in TtlResults(t), now \in Times : UpdateValueTtlDone(t, r, now)

\* ------------------------------------------------------------------ load_more_list_value
\* the request asks for one element more than a page
LoadMoreStop_OffByOne(start) == start + LIST_PAGE

\* `let stop = start + 99`
LoadMoreStop(start) == start + LIST_PAGE - 1

\* what load_more_list_value spawns: nothing when no key is selected or the
\* value is not a list, else the request for the next page after the loaded ones
LoadMoreSpawn ==
    IF KeyOrDefault = EmptyStr \/ value = None \/ ListValue(Unwrap(value)) = None
    THEN {}
    ELSE LET data == Unwrap(ListValue(Unwrap(value)))
             start == Len(data.values)
         IN  {[kind |-> "load_more_list", server |-> server, key |-> KeyOrDefault,
               start |-> start, stop |-> LoadMoreStop(start),
               data |-> data, value |-> Unwrap(value)]}

LoadMoreListValue ==
    /\ CanSpawn
    /\ edits < EditCap
    /\ edits' = edits + 1
    /\ LoadMoreSpawn # {}
    /\ tasks' = Spawn(tasks, LoadMoreSpawn)
    /\ last' = Event("load_more_list", TRUE, FALSE, FALSE, LoadMoreSpawn)
    /\ UNCHANGED <<scanVars, key, value, deleting, updating, source, list_value, done>>
    /\ UNCHANGED <<key_tree, string_editor>>

\* ListDelegate::loading is not implemented by RedisListValues: the default
Loading == FALSE

\* RedisListValues::load_more, called by the list when it is scrolled to its end
LoadMore ==
    /\ CanSpawn
    /\ edits < EditCap
    /\ edits' = edits + 1
    /\ LET gated == done \/ Loading
           full == Len(list_value.values) >= list_value.size
           new == IF gated \/ full THEN {} ELSE LoadMoreSpawn
       IN  /\ done' = IF ~gated /\ full THEN TRUE ELSE done
           /\ tasks' = Spawn(tasks, new)
           /\ last' = Event("load_more", TRUE, FALSE, FALSE, new)
    /\ UNCHANGED <<scanVars, key, value, deleting, updating, source, list_value>>
    /\ UNCHANGED <<key_tree, string_editor>>

\* the task of load_more_list_value on a list that has len elements now; the
\* list of the "list" and "race" stores keeps the length it had when the key was selected
LoadMoreLens(t) == IF source \in {"list", "race"} THEN {t.data.size} ELSE ListLens

LoadMoreResults(t) ==
    {Failure} \cup
    {Ok([t.value EXCEPT !.data =
            Some(ListData(t.data.size, t.data.values \o Lrange(len, t.start, t.stop)))]) :
        len \in LoadMoreLens(t)}

LoadMoreDone(t, r) ==
    /\ value' = IF r.ok THEN Some(r.value) ELSE value
    /\ tasks' = Finish(tasks, t)
    /\ last' = Event("load_more_list_done", r.ok, Some(t.key) # key, FALSE, {})
    /\ UNCHANGED <<scanVars, key, deleting, updating, source, edits, done>>
    /\ key_tree' = UpdateKeyTree(key_tree_id')
    /\ string_editor' \in UpdateEditorValue(value')
    /\ list_value' = ObserveList(value')

MoreArrives ==
    \E t \in BagToSet(tasks) :
        /\ t.kind = "load_more_list"
        /\ \E r \in LoadMoreResults(t) : LoadMoreDone(t, r)

\* select(server): the state of another connection is a fresh state
SelectServer(s) ==
    /\ CanCommand
    /\ s # server
    /\ server' = s
    /\ keyword' = EmptyStr
    /\ keys' = ResetScan.keys
    /\ cursors' = ResetScan.cursors
    /\ scan_completed' = ResetScan.scan_completed
    /\ scaning' = ResetScan.scaning
    /\ scan_times' = ResetScan.scan_times
    /\ loaded_prefixes' = ResetScan.loaded_prefixes
    /\ key_tree_id' = ResetScan.key_tree_id
    /\ key' = None
    /\ value' = None
    /\ last' = Event("select", TRUE, FALSE, FALSE, {})
    /\ UNCHANGED <<tasks, source, deleting, updating, edits, list_value, done>>
    /\ key_tree' = UpdateKeyTree(key_tree_id')
    /\ string_editor' \in UpdateEditorValue(value')

StartScan == \E kw \in ScanKeywords : Scan(kw)
ExpandPrefix == \E p \in Prefixes : ScanPrefix(p)
SwitchServer == \E s \in Servers : SelectServer(s)

Next ==
    \/ StartScan
    \/ ScanNext
    \/ ExpandPrefix
    \/ PrefixArrives
    \/ SwitchServer
    \/ PageArrives
    \/ TypesArrive

Spec == Init /\ [][Next]_vars

\* the scan chain against a page source that always has new keys and never finishes
InitCap == InitState /\ source = "bulk"

NextCap ==
    \/ StartScan
    \/ ScanNext
    \/ PageArrives
    \/ TypesArrive

SpecCap == InitCap /\ [][NextCap]_vars

\* the scan chain against cursor sequences that reach all-zero, every request returning
InitLive == InitState /\ source = "finite"

NextLive ==
    \/ StartScan
    \/ ScanNext
    \/ PageArrives
    \/ TypesArrive

SpecLive ==
    InitLive /\ [][NextLive]_vars /\ WF_vars(PageArrives) /\ WF_vars(TypesArrive)

\* everything that reads or writes keys, the selection and the value, on one connection
PickKey == \E k \in SelectKeys : SelectKey(k)
RemoveKey == \E k \in EditKeys : DeleteKey(k)
Save == \E k \in EditKeys, v \in SaveStrings : SaveValue(k, v)
SetTtl == \E k \in EditKeys, d \in TtlInputs : UpdateValueTtl(k, d)

NextKeys ==
    \/ StartScan
    \/ PageArrives
    \/ TypesArrive
    \/ ExpandPrefix
    \/ PrefixArrives
    \/ PickKey
    \/ ValueArrives
    \/ RemoveKey
    \/ DeleteArrives
    \/ Save
    \/ SaveArrives
    \/ SetTtl
    \/ TtlArrives
    \/ LoadMoreListValue
    \/ MoreArrives

InitKeys == InitState /\ source = "keys"

SpecKeys == InitKeys /\ [][NextKeys]_vars

\* the selection and the value of one key at a time, against a store that
\* answers with every type, expiry and content
NextValue ==
    \/ PickKey
    \/ ValueArrives
    \/ Save
    \/ SaveArrives
    \/ SetTtl
    \/ TtlArrives

InitValue == InitState /\ source = "value"

SpecValue == InitValue /\ [][NextValue]_vars

\* a list value and its pages, asked for by the list editor or directly
NextList ==
    \/ PickKey
    \/ ValueArrives
    \/ LoadMore
    \/ LoadMoreListValue
    \/ MoreArrives

InitList == InitState /\ source = "list"

SpecList == InitList /\ [][NextList]_vars

\* scans, deletes, saves and expiry updates whose every request returns, over
\* cursor sequences that reach all-zero
NextBusy ==
    \/ StartScan
    \/ ScanNext
    \/ PageArrives
    \/ TypesArrive
    \/ RemoveKey
    \/ DeleteArrives
    \/ Save
    \/ SaveArrives
    \/ SetTtl
    \/ TtlArrives

InitBusy == InitState /\ source = "busy"

SpecBusy ==
    /\ InitBusy
    /\ [][NextBusy]_vars
    /\ WF_vars(PageArrives)
    /\ WF_vars(TypesArrive)
    /\ WF_vars(DeleteArrives)
    /\ WF_vars(SaveArrives)
    /\ WF_vars(TtlArrives)

\* two keys of different types selected in turn while requests for the other
\* one are in flight: a is a long list, b is the string "b"
NextRace ==
    \/ PickKey
    \/ ValueArrives
    \/ LoadMoreListValue
    \/ MoreArrives
    \/ Save
    \/ SaveArrives
    \/ SetTtl
    \/ TtlArrives

InitRace == InitState /\ source = "race"

SpecRace == InitRace /\ [][NextRace]_vars

\* the user changes the text of the string editor: InputEvent::Change
EditorTexts == {<<"x">>, <<"y", "z">>}

InputChange(text) ==
    /\ string_editor' = [text |-> text, value_modified |-> ValueModified(text, value)]
    /\ last' = Event("input_change", TRUE, FALSE, FALSE, {})
    /\ UNCHANGED <<scanVars, key, value, deleting, updating, edits, list_value, done,
                   key_tree, tasks, source>>

EditText == \E text \in EditorTexts : InputChange(text)

\* a string value shown in the string editor and edited there, while scans,
\* type resolutions and saves notify the observers of the state
NextEditor ==
    \/ PickKey
    \/ ValueArrives
    \/ EditText
    \/ StartScan
    \/ PageArrives
    \/ TypesArrive
    \/ Save
    \/ SaveArrives

InitEditor == InitState /\ source = "editor"

SpecEditor == InitEditor /\ [][NextEditor]_vars

TypeOK ==
    /\ server \in Servers
    /\ scan_times \in 0..MaxScanTimes
    /\ BagCardinality(tasks) <= MaxTasks

\* ------------------------------------------------------------------ claims
ScanTasks == {t \in BagToSet(tasks) : t.kind = "scan_keys"}

\* C1: applying the late page response (success or failure) of a chain started
\* under another keyword on the same connection changes none of keys, cursors,
\* scan_completed, scaning, key_tree_id and starts no type resolution.
C1_StaleGenerationDropped ==
    [][\A t \in ScanTasks :
          (last'.op = "scan_keys_done" /\ t.server = server /\ t.keyword # keyword) =>
             \A r \in ScanResults(t) :
                ScanKeysDone(t, r) =>
                   /\ UNCHANGED <<keys, cursors, scan_completed, scaning, key_tree_id>>
                   /\ tasks' = Finish(tasks, t)]_vars

\* C2: a continuation (scan_keys called again by the callback, with the pair
\* the chain was started with) whose pair differs from the state's current
\* (server, keyword) issues no page request and changes no field: the step is
\* exactly the merge of the page, the finished task leaves and nothing is spawned.
C2_GuardOnContinuation ==
    [][\A t \in ScanTasks :
          (last'.op = "scan_keys_done" /\ last'.cont /\ Stale(t)) =>
             \A r \in ScanResults(t) :
                ScanKeysDone(t, r) =>
                   /\ tasks' = Finish(tasks, t)
                   /\ cursors' = Some(r.cursors)
                   /\ keys' = ExtendKeys(keys, r.keys)
                   /\ UNCHANGED <<server, keyword, scan_completed, scaning,
                                  scan_times, loaded_prefixes>>]_vars

\* a stale page arrived, its callback called scan_keys again, nothing was spawned
C2_Witness ==
    /\ last.op = "scan_keys_done"
    /\ last.stale
    /\ last.cont
    /\ last.spawned = 0
    /\ IsSome(cursors)

\* the page requests in flight whose chain may continue
LivePages == {t \in ScanTasks : ~Stale(t)}

\* C3: at most one page request of a live chain is in flight.
C3_OneLiveChain ==
    /\ Cardinality(LivePages) <= 1
    /\ \A t \in LivePages : CopiesIn(t, tasks) = 1

\* C4: scan_completed implies that no cursor set is stored.
C4_CompletedHasNoCursor == scan_completed => cursors = None

\* C7: within one chain the request for the next page is issued by the step
\* that merged the previous page (its keys are in keys, its cursor is stored),
\* and it carries exactly the cursor set that page returned.
C7_PagesInSequence ==
    [][\A t \in ScanTasks :
          (last'.op = "scan_keys_done" /\ last'.cont /\ ~Stale(t)) =>
          \A r \in ScanResults(t) :
             ScanKeysDone(t, r) =>
                /\ r.ok
                /\ r.keys \subseteq DOMAIN keys'
                /\ cursors' = Some(r.cursors)
                /\ tasks' = Spawn(Finish(tasks, t),
                                  {[kind |-> "scan_keys", server |-> t.server,
                                    keyword |-> t.keyword, cursors |-> Some(r.cursors),
                                    max |-> (scan_times + 1) * DEFAULT_SCAN_RESULT_MAX]})]_vars

\* a live page was merged and the next page, carrying the stored cursor, is in flight
C7_Witness ==
    /\ last.op = "scan_keys_done"
    /\ last.cont
    /\ ~last.stale
    /\ last.spawned = 1
    /\ keys # EmptyKeys
    /\ \E t \in LivePages : t.cursors = cursors /\ IsSome(cursors)

\* C8: a failed page of the live chain clears the cursor, requests no page,
\* sets scaning to false, triggers the type resolution of the root prefix and
\* leaves keys as the earlier pages made it.
C8_PageFailureEndsChain ==
    [][\A t \in LivePages :
          (last'.op = "scan_keys_done" /\ ~last'.ok /\ ScanKeysDone(t, Failure)) =>
             /\ cursors' = None
             /\ ~scaning'
             /\ keys' = keys
             /\ tasks' = Spawn(Finish(tasks, t), FillKeyTypesSpawn(keys, server, EmptyStr))]_vars

\* a page of the live chain failed after earlier pages had merged keys, and the
\* type resolution of those keys is in flight
C8_Witness ==
    /\ last.op = "scan_keys_done"
    /\ ~last.ok
    /\ ~last.stale
    /\ last.spawned = 1
    /\ keys # EmptyKeys
    /\ \E t \in BagToSet(tasks) : t.kind = "fill_key_types" /\ t.keys = FillTargets(keys, EmptyStr)

C5_CapRespected ==
    [][/\ \A t \in LivePages :
            last'.op = "scan_keys_done" =>
            \A r \in ScanResults(t) :
               ScanKeysDone(t, r) =>
                  /\ cursors' = Some(r.cursors)
                  /\ ~scan_completed'
                  /\ IF KeyLen(keys') >= t.max
                     THEN /\ ~scaning'
                          /\ tasks' = Spawn(Finish(tasks, t), FillKeyTypesSpawn(keys', server, EmptyStr))
                     ELSE tasks' = Spawn(Finish(tasks, t),
                                         {[kind |-> "scan_keys", server |-> server,
                                           keyword |-> keyword, cursors |-> Some(r.cursors),
                                           max |-> (scan_times + 1) * 1000]})
       /\ (last'.op = "scan_next" /\ ScanNext) =>
             /\ scan_times' = scan_times + 1
             /\ tasks' = Spawn(tasks, {[kind |-> "scan_keys", server |-> server,
                                        keyword |-> keyword, cursors |-> cursors,
                                        max |-> 1000 * (scan_times + 2)]})
       /\ \A kw \in ScanKeywords :
             (last'.op = "scan" /\ Scan(kw)) =>
                tasks' = Spawn(tasks, {[kind |-> "scan_keys", server |-> server,
                                        keyword |-> kw, cursors |-> None, max |-> 1000]})
      ]_vars

\* the chain stopped at the cap of round 0, scan_next resumed it from the stored
\* cursor, and it stopped again with 2000 keys or more
C5_Witness ==
    /\ last.op = "scan_keys_done"
    /\ ~last.cont
    /\ ~last.stale
    /\ scan_times = 1
    /\ KeyCount >= 2000
    /\ ScanTasks = {}
    /\ IsSome(cursors)
    /\ ~scaning
    /\ ~scan_completed

\* no page request of the current (server, keyword) is in flight and scaning is false
ChainOver == ~scaning /\ LivePages = {}

ConfirmedDeleteOf(k) ==
    /\ last'.op = "delete_key_done"
    /\ last'.ok
    /\ \E t \in BagToSet(tasks) :
          t.kind = "delete_key" /\ t.key = k /\ tasks' = Finish(tasks, t)

\* the step resets the filter: scan(keyword) or select(server)
FilterReset == last'.op \in {"scan", "select"}

\* C10: a key present in keys is never silently removed: every step that is
\* neither a filter reset nor the confirmed delete of that very key (a page
\* arrival, a prefix merge, a type merge, select_key, save, set-ttl, load-more
\* and every failed request) leaves the key in keys
C10_KeyNeverSilentlyRemoved ==
    [][\A k \in DOMAIN keys :
          k \notin DOMAIN keys' => (FilterReset \/ ConfirmedDeleteOf(k))]_vars

\* a delete request failed and both keys of the store are still listed
C10_Witness ==
    /\ last.op = "delete_key_done"
    /\ ~last.ok
    /\ DOMAIN keys = {<<"a">>, <<"a", ":", "b">>}

\* C11: key_tree_id changes if and only if the set of keys or some key's type
\* changed: a step that leaves keys as it was (a type merge that assigns every
\* key the type it already has) leaves key_tree_id as it was, and a step that
\* adds a key, removes a key or changes a type changes key_tree_id
C11_TreeVersionTracksKeys ==
    [][(key_tree_id' # key_tree_id) <=> (keys' # keys)]_vars

\* k starts with p and has no separator after it
IsDirectChild(k, p) ==
    /\ Len(k) >= Len(p)
    /\ \A i \in 1..Len(p) : k[i] = p[i]
    /\ \A i \in (Len(p) + 1)..Len(k) : k[i] # ":"

UnknownChildren(ks, p) == {k \in DOMAIN ks : ks[k] = "Unknown" /\ IsDirectChild(k, p)}

\* one request per Unknown direct child of p, in one batch; nothing when there is none
ExpectedBatch(ks, p) ==
    IF UnknownChildren(ks, p) = {} THEN {}
    ELSE {[kind |-> "fill_key_types", server |-> server, keys |-> UnknownChildren(ks, p)]}

FillTasks(bag) == {t \in BagToSet(bag) : t.kind = "fill_key_types"}

\* C12: type resolution for a prefix asks for the type of exactly the keys that
\* are Unknown and direct children of the prefix at that moment, and of no
\* other key; when there is no such key nothing is issued and the state is
\* unchanged. Type resolution runs in scan_prefix on a completed scan, at the
\* end of a scan chain (prefix "") and after a prefix scan, and nowhere else.
C12_TypeResolutionTargets ==
    [][/\ (last'.op = "scan_prefix" /\ scan_completed) =>
            /\ \E p \in Prefixes \ loaded_prefixes :
                  tasks' = Spawn(tasks, ExpectedBatch(keys, p))
            /\ UNCHANGED <<scanVars, key, value, deleting, updating>>
       /\ (last'.op = "scan_keys_done" /\ ~last'.cont) =>
            \E t \in ScanTasks :
                tasks' = Spawn(Finish(tasks, t), ExpectedBatch(keys', EmptyStr))
       /\ last'.op = "scan_prefix_done" =>
            \E t \in BagToSet(tasks) :
                /\ t.kind = "scan_prefix"
                /\ tasks' = Spawn(Finish(tasks, t), ExpectedBatch(keys', t.prefix))
       /\ (last'.op \notin {"scan_prefix", "scan_keys_done", "scan_prefix_done"}) =>
            \A f \in FillTasks(tasks') : CopiesIn(f, tasks') <= CopiesIn(f, tasks)]_vars

\* a chain ended with two Unknown keys listed, and the batch asks for the direct
\* child of "" only, not for the key below the prefix "a:"
C12_Witness ==
    /\ last.op = "scan_keys_done"
    /\ ~last.cont
    /\ last.spawned = 1
    /\ DOMAIN keys = {<<"a">>, <<"a", ":", "b">>}
    /\ keys[<<"a", ":", "b">>] = "Unknown"
    /\ \E f \in FillTasks(tasks) : f.keys = {<<"a">>}

\* the type a TYPE reply stands for; a failed lookup is the reply ""
ReplyType(reply) ==
    IF reply = "string" THEN "String"
    ELSE IF reply = "list" THEN "List"
    ELSE "Unknown"

\* C13: a failed lookup for one key of a batch resolves that key to Unknown
\* and does not prevent the others: the batch is still merged, and after the
\* merge every key of the batch that is still in keys has the type its own
\* lookup returned
C13_FailedLookupIsolated ==
    [][last'.op = "fill_key_types_done" =>
          \A t \in FillTasks(tasks) :
              \A r \in TypeResults(t) :
                  (r.ok /\ FillKeyTypesDone(t, r)) =>
                      /\ DOMAIN keys' = DOMAIN keys
                      /\ \A k \in t.keys \cap DOMAIN keys' :
                            keys'[k] = ReplyType(r.types[k])]_vars

\* one batch asked for "a" and "b": the lookup of "b" failed, "a" is a string
C13_Witness ==
    /\ last.op = "fill_key_types_done"
    /\ last.ok
    /\ tasks = EmptyBag
    /\ key_tree_id = 3
    /\ DOMAIN keys = {<<"a">>, <<"b">>}
    /\ keys[<<"a">>] = "String"
    /\ keys[<<"b">>] = "Unknown"

\* C14: the type merge is order-independent: for any two batches in flight
\* at the same time and any answers to them, applying the two answers in
\* either order leaves the same keys mapping
C14_MergeOrderIndependent ==
    \A t1, t2 \in FillTasks(tasks) :
        (t1 # t2 \/ CopiesIn(t1, tasks) >= 2) =>
            \A r1 \in TypeResults(t1), r2 \in TypeResults(t2) :
                (r1.ok /\ r2.ok) =>
                    MergeTypes(MergeTypes(keys, r1.types), r2.types)
                        = MergeTypes(MergeTypes(keys, r2.types), r1.types)

\* the last step applied the answer of a select_key task whose pipeline answered
Selected == last.op = "select_key_done" /\ last.reply.piped

\* C15: TTL semantics of select_key: a ttl of -2 gives a value with
\* expire_at = -2 and no value fetch is sent; a ttl of -1 gives expire_at = -1;
\* a ttl t >= 0 gives expire_at = now + t
C15_TtlSemantics ==
    Selected =>
        /\ last.reply.ttl = -2 =>
              /\ last.ok
              /\ ~last.reply.fetched
              /\ IsSome(value)
              /\ Unwrap(value).expire_at = Some(-2)
              /\ Unwrap(value).data = None
        /\ (last.reply.ttl = -1 /\ last.ok) =>
              (IsSome(value) /\ Unwrap(value).expire_at = Some(-1))
        /\ (last.reply.ttl >= 0 /\ last.ok) =>
              (IsSome(value) /\ Unwrap(value).expire_at = Some(last.reply.now + last.reply.ttl))

\* a key with 5 seconds left was selected at time 1000
C15_Witness ==
    /\ Selected
    /\ last.ok
    /\ last.reply.ttl = 5
    /\ last.reply.now = 1000
    /\ Unwrap(value).expire_at = Some(1005)

\* C16: select_key of an existing key whose type is neither string nor list
\* fails and leaves no value selected, whatever value was stored before
C16_UnsupportedTypeClearsValue ==
    [][(last'.op = "select_key_done" /\ last'.reply.piped
            /\ last'.reply.ttl # -2 /\ last'.reply.tname \notin {"string", "list"}) =>
          (~last'.ok /\ ~last'.reply.fetched /\ value' = None)]_vars

\* the second key selected is a hash
C16_Witness ==
    /\ Selected
    /\ last.reply.tname = "hash"
    /\ last.reply.ttl = -1
    /\ ~last.ok
    /\ value = None
    /\ edits = 2
    /\ tasks = EmptyBag

\* the first m elements of the list in the store, in order
FirstElements(m) == [i \in 1..m |-> i]

LoadMoreTasks == {t \in BagToSet(tasks) : t.kind = "load_more_list"}

\* the stored value is a list whose loaded elements are the first ones of the
\* list, in order, and not more than its total
LoadedInOrder ==
    (IsSome(value) /\ IsSome(ListValue(Unwrap(value)))) =>
        LET data == Unwrap(ListValue(Unwrap(value)))
        IN  /\ Len(data.values) <= data.size
            /\ data.values = FirstElements(Len(data.values))

\* select_key of a list of len elements loaded the first min(len, 100) of them
FirstPageLoaded ==
    (Selected /\ last.ok /\ last.reply.tname = "list") =>
        LET data == Unwrap(ListValue(Unwrap(value)))
        IN  /\ data.size = last.reply.len
            /\ data.values = FirstElements(Min(last.reply.len, 100))

\* C17: list pagination, for a list of length L that does not change in the
\* store: select_key loads the first min(L, 100) elements with total = L; a
\* load_more_list_value asked with n elements loaded fetches the indices
\* [n, n + 99] and its answer appends exactly min(100, L - n) elements in
\* order; the loaded count never exceeds the total
C17_ListPagination ==
    [][/\ FirstPageLoaded'
       /\ LoadedInOrder'
       /\ (last'.op = "load_more_list_done" /\ last'.ok) =>
             \E t \in LoadMoreTasks :
                 /\ tasks' = Finish(tasks, t)
                 /\ t.start = Len(t.data.values)
                 /\ t.stop = t.start + 99
                 /\ LET after == Unwrap(ListValue(Unwrap(value')))
                    IN  /\ after.size = t.data.size
                        /\ after.values =
                              t.data.values \o
                              [i \in 1..Min(100, t.data.size - t.start) |-> t.start + i]]_vars

\* the list of 250 elements is loaded whole: 100, then 200, then 250
C17_Witness ==
    /\ last.op = "load_more_list_done"
    /\ last.ok
    /\ edits = 3
    /\ IsSome(value)
    /\ Unwrap(value).key_type = "List"
    /\ Unwrap(ListValue(Unwrap(value))).size = 250
    /\ Len(Unwrap(ListValue(Unwrap(value))).values) = 250

\* the stored value is a list that is loaded whole
FullyLoaded ==
    /\ IsSome(value)
    /\ IsSome(ListValue(Unwrap(value)))
    /\ Len(Unwrap(ListValue(Unwrap(value))).values) >= Unwrap(ListValue(Unwrap(value))).size

\* C18: a load-more request of the list editor is a no-op (no fetch is issued
\* and the state is unchanged) when the loaded count already equals the total
\* or when an earlier load-more request is still in flight
C18_LoadMoreGated ==
    [][(last'.op = "load_more" /\ (FullyLoaded \/ LoadMoreTasks # {})) =>
          /\ tasks' = tasks
          /\ UNCHANGED <<scanVars, key, value, deleting, updating>>]_vars

\* C19: a successful delete(k) removes exactly the key k from keys (every
\* other key and its type is unchanged), changes key_tree_id, and, if k was
\* the selected key, clears both the selection and the stored value
C19_DeleteRemovesOneKey ==
    [][\A k \in EditKeys :
          ConfirmedDeleteOf(k) =>
              /\ keys' = [j \in (DOMAIN keys) \ {k} |-> keys[j]]
              /\ key_tree_id' # key_tree_id
              /\ (key = Some(k)) => (key' = None /\ value' = None)]_vars

\* C20: a failed delete(k) leaves keys, the selection, the stored value and
\* key_tree_id as they were before the delete was requested (neither the
\* request nor the failed answer changes them), and deleting is false afterwards
C20_FailedDeleteChangesNothing ==
    [][/\ last'.op = "delete_key" =>
             UNCHANGED <<keys, key, value, key_tree_id>>
       /\ (last'.op = "delete_key_done" /\ ~last'.ok) =>
             /\ UNCHANGED <<keys, key, value, key_tree_id>>
             /\ deleting' = FALSE]_vars

\* the delete of the selected key failed: the key is listed, selected and its
\* value stored
C20_Witness ==
    /\ last.op = "delete_key_done"
    /\ ~last.ok
    /\ ~deleting
    /\ key = Some(<<"a">>)
    /\ IsSome(value)
    /\ <<"a">> \in DOMAIN keys

SaveTasks == {t \in BagToSet(tasks) : t.kind = "save_value"}

\* C21: save(key, newValue) sets updating; when the answer is applied, on
\* success the stored value's data is the new string and its size the new
\* string's length (its type and expiry are kept), on failure the stored value
\* is exactly as before; in both cases updating is false afterwards
C21_SaveValue ==
    [][/\ last'.op = "save_value" =>
             /\ updating'
             /\ value' = value
             /\ \E t \in BagToSet(tasks') :
                   t.kind = "save_value" /\ tasks' = Spawn(tasks, {t})
       /\ last'.op = "save_value_done" =>
             \E t \in SaveTasks :
                 /\ tasks' = Finish(tasks, t)
                 /\ ~updating'
                 /\ (last'.ok /\ IsSome(value)) =>
                       /\ IsSome(value')
                       /\ Unwrap(value').data = Some([tag |-> "String", str |-> t.value])
                       /\ Unwrap(value').size = Len(t.value)
                       /\ Unwrap(value').key_type = Unwrap(value).key_type
                       /\ Unwrap(value').expire_at = Unwrap(value).expire_at
                 /\ (last'.ok /\ value = None) => value' = None
                 /\ ~last'.ok => value' = value]_vars

\* a string with 5 seconds left was selected, then "yz" was saved over it
C21_Witness ==
    /\ last.op = "save_value_done"
    /\ last.ok
    /\ ~updating
    /\ IsSome(value)
    /\ Unwrap(value).data = Some([tag |-> "String", str |-> <<"y", "z">>])
    /\ Unwrap(value).size = 2
    /\ Unwrap(value).expire_at = Some(1005)

TtlTasks == {t \in BagToSet(tasks) : t.kind = "update_value_ttl"}

\* C22: update_value_ttl with a duration string that does not parse ends with
\* an error without contacting the store: no connection was obtained and no
\* EXPIRE was sent, the stored value (its expire_at) is unchanged, and updating
\* is false afterwards
C22_InvalidDurationNoContact ==
    [][last'.op = "update_value_ttl_done" =>
          \A t \in TtlTasks :
              (tasks' = Finish(tasks, t) /\ ParseDuration(t.ttl) = None) =>
                  /\ ~last'.ok
                  /\ ~last'.reply.connected
                  /\ ~last'.reply.sent
                  /\ value' = value
                  /\ ~updating']_vars

\* C23: update_value_ttl with a valid duration of s seconds sets the stored
\* expire_at to now + s only if the store accepted the EXPIRE; when the request
\* failed or the store answered 0 (the key does not exist) the stored value is
\* unchanged
C23_TtlOnlyIfAccepted ==
    [][last'.op = "update_value_ttl_done" =>
          \A t \in TtlTasks :
              (tasks' = Finish(tasks, t) /\ key = Some(t.key) /\ IsSome(ParseDuration(t.ttl))) =>
                  IF last'.ok /\ last'.reply.accepted
                  THEN IsSome(value) =>
                          value' = Some([Unwrap(value) EXCEPT !.expire_at =
                                            Some(last'.now + Unwrap(ParseDuration(t.ttl)))])
                  ELSE value' = value]_vars

DeleteTasks == {t \in BagToSet(tasks) : t.kind = "delete_key"}

\* C24: the busy and scanning flags are always reset: when every request in
\* flight eventually returns (success or failure) and cursor sequences are
\* finite, scaning, deleting and updating, once true, eventually become false,
\* and each of them is false whenever no request of its kind is in flight
C24_FlagsAlwaysReset ==
    /\ scaning ~> ~scaning
    /\ deleting ~> ~deleting
    /\ updating ~> ~updating
    /\ [](ScanTasks = {} => ~scaning)
    /\ [](DeleteTasks = {} => ~deleting)
    /\ []((SaveTasks \cup TtlTasks) = {} => ~updating)

\* a delete was requested during a scan and failed: nothing is in flight any
\* more and no flag is left set
C24_Witness ==
    /\ last.op = "delete_key_done"
    /\ ~last.ok
    /\ tasks = EmptyBag
    /\ keys # EmptyKeys
    /\ ~deleting
    /\ ~scaning
    /\ ~updating

PrefixTasks(bag) == {t \in BagToSet(bag) : t.kind = "scan_prefix"}
PageTasks(bag) == {t \in BagToSet(bag) : t.kind \in {"scan_keys", "scan_prefix"}}

\* C25: scan_prefix(p) issues page requests only when p is not in
\* loaded_prefixes and the scan is not completed, and no other step starts a
\* prefix scan; on a completed scan it only triggers the type resolution of p
\* and leaves keys, cursors and loaded_prefixes unchanged
C25_ScanPrefixGuards ==
    [][/\ (\E t \in PrefixTasks(tasks') : CopiesIn(t, tasks') > CopiesIn(t, tasks)) =>
             /\ last'.op = "scan_prefix"
             /\ ~scan_completed
             /\ \E p \in Prefixes \ loaded_prefixes :
                   tasks' = Spawn(tasks, {[kind |-> "scan_prefix", server |-> server,
                                           prefix |-> p]})
       /\ (last'.op = "scan_prefix" /\ scan_completed) =>
             /\ \E p \in Prefixes \ loaded_prefixes :
                   tasks' = Spawn(tasks, ExpectedBatch(keys, p))
             /\ \A t \in PageTasks(tasks') : CopiesIn(t, tasks') = CopiesIn(t, tasks)
             /\ UNCHANGED <<keys, cursors, loaded_prefixes>>
       /\ last'.op = "scan_prefix" =>
             UNCHANGED <<keys, cursors, loaded_prefixes, scan_completed>>]_vars

\* on a completed scan that listed "a:b", scan_prefix("a:") asked for its type
C25_Witness ==
    /\ last.op = "scan_prefix"
    /\ last.spawned = 1
    /\ scan_completed
    /\ cursors = None
    /\ loaded_prefixes = {}
    /\ PageTasks(tasks) = {}
    /\ \E f \in FillTasks(tasks) : f.keys = {<<"a", ":", "b">>}

\* C26: a prefix expansion runs its own loop of at most 20 page requests
\* without reading or writing cursors, scan_completed, scaning or scan_times:
\* the request changes no scan field and carries the prefix only, its outcome
\* is either a failure or the keys of 1 to 20 pages, and applying it merges the
\* accumulated keys in that one step and marks the prefix loaded; when a page
\* failed no key is merged and the prefix is not marked loaded. No other step
\* adds to loaded_prefixes.
C26_PrefixExpansionPrivate ==
    [][/\ last'.op = "scan_prefix" =>
             /\ UNCHANGED scanVars
             /\ \A t \in PrefixTasks(tasks') :
                   /\ DOMAIN t = {"kind", "server", "prefix"}
                   /\ \A r \in PrefixResults(t) :
                         r.ok => (r.pages \in 1..20 /\ \A k \in r.keys : MatchesPrefix(k, t.prefix))
       /\ last'.op = "scan_prefix_done" =>
             \E t \in PrefixTasks(tasks) :
                 /\ tasks' = Spawn(Finish(tasks, t), ExpectedBatch(keys', t.prefix))
                 /\ UNCHANGED <<cursors, scan_completed, scaning, scan_times>>
                 /\ IF last'.ok
                    THEN /\ DOMAIN keys \subseteq DOMAIN keys'
                         /\ \A k \in DOMAIN keys : keys'[k] = keys[k]
                         /\ \A k \in (DOMAIN keys') \ (DOMAIN keys) :
                               MatchesPrefix(k, t.prefix) /\ keys'[k] = "Unknown"
                         /\ loaded_prefixes' = loaded_prefixes \cup {t.prefix}
                    ELSE /\ keys' = keys
                         /\ loaded_prefixes' = loaded_prefixes
       /\ last'.op # "scan_prefix_done" => loaded_prefixes' \subseteq loaded_prefixes]_vars

\* a prefix scan merged "a:b" and marked "a:" loaded while the scan chain was
\* running with a cursor stored
C26_Witness ==
    /\ last.op = "scan_prefix_done"
    /\ last.ok
    /\ loaded_prefixes = {<<"a", ":">>}
    /\ <<"a", ":", "b">> \in DOMAIN keys
    /\ IsSome(cursors)
    /\ scaning
    /\ ~scan_completed

\* the page requests the step added to the tasks in flight, t being the one it finished
RequestedPages(t) ==
    {n \in BagToSet(tasks') :
        n.kind = "scan_keys" /\ CopiesIn(n, tasks') > CopiesIn(n, Finish(tasks, t))}

\* C27: applying a page response of the live chain merges the returned keys
\* into keys (new keys are Unknown, known keys keep their type); an all-zero
\* cursor set makes scan_completed true and clears the cursor, any other
\* cursor set is stored; the next page is requested with the stored cursor
\* set, and only if the scan is not completed and the key count is below the cap
C27_PageResponse ==
    [][\A t \in LivePages :
          last'.op = "scan_keys_done" =>
          \A r \in ScanResults(t) :
             (r.ok /\ ScanKeysDone(t, r)) =>
                /\ DOMAIN keys' = (DOMAIN keys) \cup r.keys
                /\ \A k \in DOMAIN keys' :
                      keys'[k] = IF k \in DOMAIN keys THEN keys[k] ELSE "Unknown"
                /\ IF CursorSum(r.cursors) = 0
                   THEN scan_completed' /\ cursors' = None
                   ELSE cursors' = Some(r.cursors)
                /\ \A n \in RequestedPages(t) :
                      /\ n.cursors = cursors'
                      /\ ~scan_completed'
                      /\ KeyLen(keys') < t.max]_vars

\* C28: every prefix in loaded_prefixes has been fully expanded: a prefix
\* scan whose outcome marks the prefix loaded left its loop on an all-zero
\* cursor set, never by exhausting the 20 rounds with a non-zero cursor
C28_LoadedMeansExpanded ==
    [][last'.op = "scan_prefix_done" =>
          \A t \in PrefixTasks(tasks) :
              \A r \in PrefixResults(t) :
                  (r.ok /\ ~r.zero) =>
                      ~(/\ ScanPrefixDone(t, r)
                        /\ t.prefix \in loaded_prefixes')]_vars

\* C29: a successful delete of a key that is not the selected key leaves the
\* selection and the stored value unchanged
C29_DeleteOtherKeepsSelection ==
    [][\A k \in EditKeys :
          (ConfirmedDeleteOf(k) /\ key # Some(k)) =>
              UNCHANGED <<key, value>>]_vars

\* the step ends with a change notification of the state
Notified == last'.op \notin {"scan_prefix", "load_more", "load_more_list", "input_change"}

\* C30: the key tree view rebuilds its tree items only when the state's
\* key_tree_id differs from the one it saw at its last rebuild: of two
\* consecutive notifications that carry the same key_tree_id, the second
\* causes no rebuild
C30_RebuildOnlyOnNewVersion ==
    [][(Notified /\ key_tree_id' = key_tree_id) => ~key_tree'.rebuilt]_vars

SelectTasks == {t \in BagToSet(tasks) : t.kind = "select_key"}

\* v is what the "race" store holds under key k: a list under a, the string b under b
ValueOfKey(k, v) ==
    IF k = <<"a">>
    THEN v.key_type = "List"
    ELSE v.key_type = "String" /\ v.data = Some(StringData(<<"b">>))

\* C31: once no select and no load-more request is in flight, a stored value
\* is the value of the selected key, never the value of a key selected before.
C31_ValueOfSelectedKey ==
    (SelectTasks = {} /\ LoadMoreTasks = {} /\ IsSome(key) /\ IsSome(value)) =>
        ValueOfKey(Unwrap(key), Unwrap(value))

\* C32: the response of a save or an expiry update started for key a while it
\* was selected, applied when key b is selected and its value loaded, leaves
\* the stored value as it was.
C32_StaleUpdateKeepsValue ==
    [][(last'.op \in {"save_value_done", "update_value_ttl_done"}
            /\ last'.stale /\ key = Some(<<"b">>) /\ IsSome(value)
            /\ ValueOfKey(<<"b">>, Unwrap(value))) =>
        value' = value]_vars

\* C33: deleting is true while a delete request is in flight, and updating is
\* true while a save or an expiry update is in flight.
C33_BusyWhileOutstanding ==
    /\ DeleteTasks # {} => deleting
    /\ (SaveTasks \cup TtlTasks) # {} => updating

\* C34: a type-resolution merge leaves every key that already has a resolved
\* type with a resolved type: none goes back to Unknown.
C34_ResolvedStaysResolved ==
    [][last'.op = "fill_key_types_done" =>
        \A k \in (DOMAIN keys) \cap (DOMAIN keys') :
            keys[k] # "Unknown" => keys'[k] # "Unknown"]_vars

\* C35: a type-resolution merge adds no key and removes none, and changes the
\* type only of keys of a batch in flight that are present at merge time.
C35_MergeAddsNoKey ==
    [][last'.op = "fill_key_types_done" =>
        /\ DOMAIN keys' = DOMAIN keys
        /\ \A k \in DOMAIN keys :
               keys'[k] # keys[k] => \E t \in FillTasks(tasks) : k \in t.keys]_vars

\* a batch was answered after every key had been deleted or cleared by a reset
C35_Witness == last.op = "fill_key_types_done" /\ last.ok /\ keys = EmptyKeys

\* C36: applying a load-more result to the list value of the selected key a
\* changes only its data: its expire_at and key_type are the ones it had.
C36_LoadMoreKeepsFields ==
    [][(last'.op = "load_more_list_done" /\ last'.ok /\ key = Some(<<"a">>)
            /\ IsSome(value) /\ ValueOfKey(<<"a">>, Unwrap(value))) =>
        /\ IsSome(value')
        /\ Unwrap(value').expire_at = Unwrap(value).expire_at
        /\ Unwrap(value').key_type = Unwrap(value).key_type]_vars

\* C37: every key in keys contains the current filter keyword.
C37_KeysMatchFilter == \A k \in DOMAIN keys : MatchesKeyword(k, keyword)

\* C38: scaning is true whenever a page request of the live chain is in flight.
C38_ScaningWhilePageInFlight == LivePages # {} => scaning

\* C39: while a value is shown and the user has modified its text in the
\* string editor, a notification of the state that changes neither the
\* selection nor the value leaves the editor's text and modified flag as they were.
C39_UnsavedTextSurvives ==
    [][(Notified /\ key' = key /\ value' = value /\ IsSome(value)
            /\ string_editor.value_modified) =>
        string_editor' = string_editor]_vars

====
